---- MODULE Spec2Model ----
(***************************************************************************)
(* GlfwApp (examples/cpp/common/GlfwApp.cpp): the window lifecycle and the  *)
(* frame loop of run(), the callback trampolines that forward native input  *)
(* events to the hooks, the default onKey, the FPS bookkeeping and          *)
(* renderStringAt.                                                          *)
(*                                                                          *)
(* pc is the position of the single thread inside run().  An exception in   *)
(* flight is the record exc; the scope guard `Finally f` of run() is the    *)
(* position "finally".                                                      *)
(***************************************************************************)
EXTENDS Integers, Sequences, FiniteSets, TLC

VARIABLES
  pc,            \* position inside run()
  window,        \* the GLFWwindow* member: "null" or "valid"
  shouldClose,   \* the close flag GLFW keeps for the window
  callbacks,     \* GLFW's callback table of the window: event kind -> trampoline
  frame,         \* the frame member
  framecount,    \* local of run()
  start,         \* local of run()
  fps,           \* the fps member, <<frames, millis>> read as frames / (millis / 1000)
  clock,         \* last value returned by Platform::elapsedMillis()
  exc,           \* the std::runtime_error in flight or caught, or NoExc
  status,        \* <<value returned by run()>>, or NoStatus before it returns
  calls,         \* how many times each function has been called
  seen,          \* how many events of each class GLFW has reported
  lastCall,      \* the hook call made for the event being dispatched
  closedIn,      \* the iteration (1-based) in which the close flag was set, 0 if unset
  mv,            \* Stacks::modelview(), bottom first
  pr,            \* Stacks::projection(), bottom first
  finallyF,      \* the scope guard f of run(): "none", "armed", or "run" once it has run
  lastEvent,     \* the event GLFW is reporting inside glfwPollEvents(), or NoEvent
  life           \* the instance: "alive", "destructed", or "crashed" in its teardown

vars == <<pc, window, shouldClose, callbacks, frame, framecount, start, fps,
          clock, exc, status, calls, seen, lastCall, closedIn, mv, pr, finallyF,
          lastEvent, life>>

----------------------------------------------------------------------------
(* Bounds of the model *)

MaxFrames == 2

MaxEvents == 2

----------------------------------------------------------------------------
(* Constants of the program and of the GLFW API it uses *)

GLFW_PRESS == 1

GLFW_KEY_ESCAPE == 256

GLFW_KEY_S == 83

GLFW_MOD_SHIFT == 1

FpsWindowMillis == 2000

NoExc == [type |-> "none", what |-> "none"]

NoStatus == <<>>

NoCall == <<>>

NoEvent == [kind |-> "none", args |-> <<>>]

\* values of elapsedMillis() advance by one of these between two reads
ClockSteps == {0, 1000, 2000}

\* GLFW_RELEASE = 0, GLFW_PRESS = 1, GLFW_REPEAT = 2
KeyActions == {0, GLFW_PRESS, 2}

\* GLFW_KEY_A = 65
Keys == {GLFW_KEY_ESCAPE, GLFW_KEY_S, 65}

\* bit sets over GLFW_MOD_SHIFT = 1 and GLFW_MOD_CONTROL = 2
Mods == 0 .. 3

\* the scancode the platform reports for a key (X11 values)
ScancodeOf(key) ==
  CASE key = GLFW_KEY_ESCAPE -> 9
    [] key = GLFW_KEY_S -> 39
    [] OTHER -> 38

KeyEvents ==
  { [kind |-> "key", args |-> <<k, ScancodeOf(k), a, m>>] :
      k \in Keys, a \in KeyActions, m \in Mods }

\* one event of each other kind, with pairwise different arguments
OtherEvents ==
  { [kind |-> "mouseButton", args |-> <<1, 0, 2>>],
    [kind |-> "cursorPos",   args |-> <<3, 4>>],
    [kind |-> "cursorEnter", args |-> <<1>>],
    [kind |-> "char",        args |-> <<97>>],
    [kind |-> "scroll",      args |-> <<5, 6>>] }

\* the user asking the window to close (close button): GLFW sets the flag itself
CloseEvent == [kind |-> "close", args |-> <<>>]

Functions ==
  { "preCreate", "createRenderingTarget", "postCreate", "initGl", "shutdownGl",
    "glfwPollEvents", "update", "draw", "finishFrame", "renderStringAt",
    "screenshot", "onKey", "onMouseButton", "onMouseMove", "onMouseEnter",
    "onCharacter", "onScroll", "destroyWindow", "glfwDestroyWindow" }

EventKinds == { "key", "mouseButton", "cursorPos", "cursorEnter", "char", "scroll" }

EventClasses == { "any", "escPress", "shiftSPress", "close" }

\* what the application may hold on the modelview and projection stacks
StackInputs == { << <<"I">>, <<"I">> >>, << <<"V", "M">>, <<"P">> >> }

Called(f) == [calls EXCEPT ![f] = @ + 1]

----------------------------------------------------------------------------
(* FAIL(message): throws std::runtime_error(message) *)

FAIL(message) == [type |-> "std::runtime_error", what |-> message]

\* ErrorCallback, lines 56-58
ErrorCallback(description) == FAIL(description)

\* A C++ exception that leaves a callback unwinds through the frames of the C
\* library: it reaches run() when the library was built with unwind tables
\* and ends the process otherwise.
ThrownThroughC == {"finally", "aborted"}

\* (mods & bit) for a single-bit mask
HasBit(mods, bit) == (mods \div bit) % 2 = 1

----------------------------------------------------------------------------
(* The callback trampolines, lines 23-54: each forwards the arguments GLFW  *)
(* passes to one hook of the instance stored as the window's user pointer.  *)

KeyCallback(a) == [hook |-> "onKey", args |-> <<a[1], a[2], a[3], a[4]>>]

MouseButtonCallback(a) == [hook |-> "onMouseButton", args |-> <<a[1], a[2], a[3]>>]

CursorEnterCallback(a) == [hook |-> "onMouseEnter", args |-> <<a[1]>>]

MouseMoveCallback(a) == [hook |-> "onMouseMove", args |-> <<a[1], a[2]>>]

CharacterCallback(a) == [hook |-> "onCharacter", args |-> <<a[1]>>]

ScrollCallback(a) == [hook |-> "onScroll", args |-> <<a[1], a[2]>>]

Trampoline(cb, a) ==
  CASE cb = "KeyCallback" -> KeyCallback(a)
    [] cb = "MouseButtonCallback" -> MouseButtonCallback(a)
    [] cb = "CursorEnterCallback" -> CursorEnterCallback(a)
    [] cb = "MouseMoveCallback" -> MouseMoveCallback(a)
    [] cb = "CharacterCallback" -> CharacterCallback(a)
    [] cb = "ScrollCallback" -> ScrollCallback(a)

\* the cursor position and cursor enter callbacks given to each other's setter
RegisteredCallbacksCursorSwapped ==
  [k \in EventKinds |->
     CASE k = "key" -> "KeyCallback"
       [] k = "mouseButton" -> "MouseButtonCallback"
       [] k = "cursorPos" -> "CursorEnterCallback"
       [] k = "cursorEnter" -> "MouseMoveCallback"
       [] k = "char" -> "CharacterCallback"
       [] k = "scroll" -> "ScrollCallback"]

\* the glfwSet...Callback calls of postCreate, lines 140-145
RegisteredCallbacks ==
  [k \in EventKinds |->
     CASE k = "key" -> "KeyCallback"
       [] k = "mouseButton" -> "MouseButtonCallback"
       [] k = "cursorPos" -> "MouseMoveCallback"
       [] k = "cursorEnter" -> "CursorEnterCallback"
       [] k = "char" -> "CharacterCallback"
       [] k = "scroll" -> "ScrollCallback"]

----------------------------------------------------------------------------
(* The hooks.  A hook's result is what it does to the instance: whether it  *)
(* calls glfwSetWindowShouldClose(window, 1) and whether it calls           *)
(* screenshot().                                                            *)

NoEffect == [close |-> FALSE, screenshot |-> FALSE]

\* escape closes only without modifiers
onKeyPlainEscape(key, scancode, action, mods) ==
  IF GLFW_PRESS # action
    THEN NoEffect
    ELSE CASE key = GLFW_KEY_ESCAPE -> [close |-> (mods = 0), screenshot |-> FALSE]
           [] key = GLFW_KEY_S -> [close |-> FALSE, screenshot |-> HasBit(mods, GLFW_MOD_SHIFT)]
           [] OTHER -> NoEffect

\* the test of the action is missing
onKeyAnyAction(key, scancode, action, mods) ==
  CASE key = GLFW_KEY_ESCAPE -> [close |-> TRUE, screenshot |-> FALSE]
    [] key = GLFW_KEY_S -> [close |-> FALSE, screenshot |-> HasBit(mods, GLFW_MOD_SHIFT)]
    [] OTHER -> NoEffect

\* only releases are filtered out, repeats act like presses
onKeyRepeats(key, scancode, action, mods) ==
  IF 0 = action
    THEN NoEffect
    ELSE CASE key = GLFW_KEY_ESCAPE -> [close |-> TRUE, screenshot |-> FALSE]
           [] key = GLFW_KEY_S -> [close |-> FALSE, screenshot |-> HasBit(mods, GLFW_MOD_SHIFT)]
           [] OTHER -> NoEffect

\* GlfwApp::onKey, lines 210-226
onKey(key, scancode, action, mods) ==
  IF GLFW_PRESS # action
    THEN NoEffect
    ELSE CASE key = GLFW_KEY_ESCAPE -> [close |-> TRUE, screenshot |-> FALSE]
           [] key = GLFW_KEY_S -> [close |-> FALSE, screenshot |-> HasBit(mods, GLFW_MOD_SHIFT)]
           [] OTHER -> NoEffect

\* onCharacter, onMouseButton, onMouseMove, onMouseEnter, onScroll: lines 228-232
HookEffect(call) ==
  IF call.hook = "onKey"
    THEN onKey(call.args[1], call.args[2], call.args[3], call.args[4])
    ELSE NoEffect

----------------------------------------------------------------------------
(* MatrixStack: push() copies the top, identity() and top() = m replace the *)
(* top, pop() removes it.                                                   *)

push(s) == Append(s, s[Len(s)])

settop(s, m) == [s EXCEPT ![Len(s)] = m]

pop(s) == SubSeq(s, 1, Len(s) - 1)

----------------------------------------------------------------------------
(* Classes of native events, by what the event is (not by what the code    *)
(* does with it).                                                           *)

IsKeyPress(e, key) ==
  e.kind = "key" /\ e.args[1] = key /\ e.args[3] = GLFW_PRESS

IsEscPress(e) == IsKeyPress(e, GLFW_KEY_ESCAPE)

IsShiftSPress(e) == IsKeyPress(e, GLFW_KEY_S) /\ e.args[4] \in {1, 3}

Seen(e) ==
  [c \in EventClasses |->
     seen[c] + (IF \/ c = "any"
                   \/ c = "escPress" /\ IsEscPress(e)
                   \/ c = "shiftSPress" /\ IsShiftSPress(e)
                   \/ c = "close" /\ e = CloseEvent
                THEN 1 ELSE 0)]

----------------------------------------------------------------------------
(* State after GlfwApp::GlfwApp(), lines 61-67, has returned *)

InitFrame == 0

Init ==
  /\ pc = "start"
  /\ window = "null"
  /\ shouldClose = FALSE
  /\ callbacks = [k \in EventKinds |-> "none"]
  /\ frame = InitFrame
  /\ framecount = 0
  /\ start = 0
  /\ fps = <<0, 1000>>
  /\ clock = 0
  /\ exc = NoExc
  /\ status = NoStatus
  /\ calls = [f \in Functions |-> 0]
  /\ seen = [c \in EventClasses |-> 0]
  /\ lastCall = NoCall
  /\ closedIn = 0
  /\ \E st \in StackInputs : mv = st[1] /\ pr = st[2]
  /\ finallyF = "none"
  /\ lastEvent = NoEvent
  /\ life = "alive"

----------------------------------------------------------------------------
(* GlfwApp::run, lines 74-113, one action per step *)

\* line 76 and GlfwApp::preCreate, lines 120-133
preCreate ==
  /\ pc = "start"
  /\ life = "alive"
  /\ pc' = "create"
  /\ calls' = Called("preCreate")
  /\ UNCHANGED <<window, shouldClose, callbacks, frame, framecount, start, fps,
                 clock, exc, status, seen, lastCall, closedIn, mv, pr, finallyF>>
  /\ UNCHANGED <<lastEvent, life>>

\* line 77: the subclass creates the window.  It returns the handle, returns
\* null, or GLFW reports the failure through ErrorCallback, which throws out
\* of the library.
createRenderingTarget ==
  /\ pc = "create"
  /\ calls' = Called("createRenderingTarget")
  /\ \/ /\ window' \in {"valid", "null"}
        /\ pc' = "postCreate"
        /\ exc' = exc
     \/ /\ window' = window
        /\ exc' = ErrorCallback("GLFW error")
        /\ pc' \in {"catch", "aborted"}
  /\ UNCHANGED <<shouldClose, callbacks, frame, framecount, start, fps, clock,
                 status, seen, lastCall, closedIn, mv, pr, finallyF>>
  /\ UNCHANGED <<lastEvent, life>>

\* line 78 and GlfwApp::postCreate, lines 135-171.  glewInit() returns zero or
\* not.  With a null window glfwSetWindowUserPointer and the glfwSet...Callback
\* calls write through the null handle: the process dies there, or goes on with
\* no callback registered.
postCreate ==
  /\ pc = "postCreate"
  /\ calls' = Called("postCreate")
  /\ \/ /\ window = "null"
        /\ pc' = "aborted"
        /\ UNCHANGED <<callbacks, exc>>
     \/ /\ callbacks' = IF window = "null" THEN callbacks ELSE RegisteredCallbacks
        /\ \E glewInit \in {0, 1} :
             IF 0 # glewInit
               THEN /\ exc' = FAIL("Failed to initialize GLEW")
                    /\ pc' = "catch"
               ELSE /\ exc' = exc
                    /\ pc' = "checkWindow"
  /\ UNCHANGED <<window, shouldClose, frame, framecount, start, fps, clock,
                 status, seen, lastCall, closedIn, mv, pr, finallyF>>
  /\ UNCHANGED <<lastEvent, life>>

\* the call of initGl() is missing
checkWindowWithoutInitGl ==
  /\ pc = "checkWindow"
  /\ IF window = "null"
       THEN /\ exc' = FAIL("Unable to create OpenGL window")
            /\ pc' = "catch"
       ELSE /\ exc' = exc
            /\ pc' = "enterLoop"
  /\ UNCHANGED <<window, shouldClose, callbacks, frame, framecount, start, fps,
                 clock, status, calls, seen, lastCall, closedIn, mv, pr, finallyF>>
  /\ UNCHANGED <<lastEvent, life>>

\* lines 80-82
checkWindow ==
  /\ pc = "checkWindow"
  /\ IF window = "null"
       THEN /\ exc' = FAIL("Unable to create OpenGL window")
            /\ pc' = "catch"
       ELSE /\ exc' = exc
            /\ pc' = "initGl"
  /\ UNCHANGED <<window, shouldClose, callbacks, frame, framecount, start, fps,
                 clock, status, calls, seen, lastCall, closedIn, mv, pr, finallyF>>
  /\ UNCHANGED <<lastEvent, life>>

\* line 84 and GlfwApp::initGl, lines 185-192; an oglplus call may throw
initGl ==
  /\ pc = "initGl"
  /\ calls' = Called("initGl")
  /\ \/ /\ pc' = "enterLoop"
        /\ exc' = exc
     \/ /\ exc' = FAIL("oglplus error")
        /\ pc' = "catch"
  /\ UNCHANGED <<window, shouldClose, callbacks, frame, framecount, start, fps,
                 clock, status, seen, lastCall, closedIn, mv, pr, finallyF>>
  /\ UNCHANGED <<lastEvent, life>>

\* lines 86-91: the scope guard f is constructed, framecount and start are set
enterLoop ==
  /\ pc = "enterLoop"
  /\ \E d \in ClockSteps :
       /\ clock' = clock + d
       /\ start' = clock'
  /\ framecount' = 0
  /\ pc' = "loopTest"
  /\ UNCHANGED <<window, shouldClose, callbacks, frame, fps, exc, status, calls,
                 seen, lastCall, closedIn, mv, pr>>
  /\ finallyF' = "armed"
  /\ UNCHANGED <<lastEvent, life>>

\* line 92: while (!glfwWindowShouldClose(window)); leaving the loop leaves the
\* scope of f
loopTest ==
  /\ pc = "loopTest"
  /\ IF shouldClose
       THEN pc' = "finally"
       ELSE /\ frame < MaxFrames
            /\ pc' = "poll"
  /\ UNCHANGED <<window, shouldClose, callbacks, frame, framecount, start, fps,
                 clock, exc, status, calls, seen, lastCall, closedIn, mv, pr, finallyF>>
  /\ UNCHANGED <<lastEvent, life>>

\* line 93: glfwPollEvents() is entered
glfwPollEvents ==
  /\ pc = "poll"
  /\ pc' = "polling"
  /\ calls' = Called("glfwPollEvents")
  /\ UNCHANGED <<window, shouldClose, callbacks, frame, framecount, start, fps,
                 clock, exc, status, seen, lastCall, closedIn, mv, pr, finallyF>>
  /\ UNCHANGED <<lastEvent, life>>

\* inside glfwPollEvents(): GLFW reports its next pending event e.  A close
\* request sets the flag; any other event goes to the callback registered for
\* its kind (lines 23-54), which calls the hook.  screenshot() and the hooks a
\* subclass overrides may throw.
Dispatch(e) ==
  /\ pc = "polling"
  /\ seen["any"] < MaxEvents
  /\ seen' = Seen(e)
  /\ IF e = CloseEvent \/ callbacks[e.kind] = "none"
       THEN /\ shouldClose' = (shouldClose \/ e = CloseEvent)
            /\ closedIn' = IF ~shouldClose /\ e = CloseEvent
                             THEN calls["glfwPollEvents"] ELSE closedIn
            /\ UNCHANGED <<pc, exc, calls, lastCall>>
       ELSE LET call == Trampoline(callbacks[e.kind], e.args)
                eff  == HookEffect(call)
            IN  /\ lastCall' = call
                /\ calls' = [calls EXCEPT
                               ![call.hook] = @ + 1,
                               !["screenshot"] = @ + (IF eff.screenshot THEN 1 ELSE 0)]
                /\ shouldClose' = (shouldClose \/ eff.close)
                /\ closedIn' = IF ~shouldClose /\ eff.close
                                 THEN calls["glfwPollEvents"] ELSE closedIn
                /\ \/ UNCHANGED <<pc, exc>>
                   \/ /\ eff.screenshot \/ call.hook # "onKey"
                      /\ exc' = FAIL("hook failed")
                      /\ pc' \in ThrownThroughC
  /\ UNCHANGED <<window, callbacks, frame, framecount, start, fps, clock, status,
                 mv, pr, finallyF>>
  /\ lastEvent' = e
  /\ UNCHANGED life

\* the flag tested again right after the poll, leaving the loop at once
PollReturnBreaksOnClose ==
  /\ pc = "polling"
  /\ pc' = IF shouldClose THEN "finally" ELSE "update"
  /\ lastCall' = NoCall
  /\ UNCHANGED <<window, shouldClose, callbacks, frame, framecount, start, fps,
                 clock, exc, status, calls, seen, closedIn, mv, pr, finallyF>>
  /\ lastEvent' = NoEvent
  /\ UNCHANGED life

\* glfwPollEvents() returns: no event is pending
PollReturn ==
  /\ pc = "polling"
  /\ pc' = "update"
  /\ lastCall' = NoCall
  /\ UNCHANGED <<window, shouldClose, callbacks, frame, framecount, start, fps,
                 clock, exc, status, calls, seen, closedIn, mv, pr, finallyF>>
  /\ lastEvent' = NoEvent
  /\ UNCHANGED life

\* ++frame is missing
updateWithoutCount ==
  /\ pc = "update"
  /\ calls' = Called("update")
  /\ \/ /\ pc' = "draw"
        /\ exc' = exc
     \/ /\ exc' = FAIL("update failed")
        /\ pc' = "finally"
  /\ UNCHANGED <<window, shouldClose, callbacks, frame, framecount, start, fps,
                 clock, status, seen, lastCall, closedIn, mv, pr, finallyF>>
  /\ UNCHANGED <<lastEvent, life>>

\* lines 94-95: ++frame; update(): the hook returns or throws
update ==
  /\ pc = "update"
  /\ frame' = frame + 1
  /\ calls' = Called("update")
  /\ \/ /\ pc' = "draw"
        /\ exc' = exc
     \/ /\ exc' = FAIL("update failed")
        /\ pc' = "finally"
  /\ UNCHANGED <<window, shouldClose, callbacks, framecount, start, fps, clock,
                 status, seen, lastCall, closedIn, mv, pr, finallyF>>
  /\ UNCHANGED <<lastEvent, life>>

\* GlfwApp::renderStringAt, lines 264-276, on the stacks m (modelview) and p
\* (projection); ok says whether oria::renderString returns or throws
renderStringAt(m, p, ok) ==
  LET m1 == settop(push(m), "I")
      p1 == settop(push(p), "ortho")
  IN  IF ok
        THEN [mv |-> pop(m1), pr |-> pop(p1), thrown |-> FALSE]
        ELSE [mv |-> m1, pr |-> p1, thrown |-> TRUE]

\* line 96: draw(): the subclass draws, with or without a renderStringAt call
draw ==
  /\ pc = "draw"
  /\ \/ /\ calls' = Called("draw")
        /\ pc' = "finish"
        /\ UNCHANGED <<exc, mv, pr>>
     \/ /\ calls' = Called("draw")
        /\ exc' = FAIL("draw failed")
        /\ pc' = "finally"
        /\ UNCHANGED <<mv, pr>>
     \/ \E ok \in BOOLEAN :
          LET r == renderStringAt(mv, pr, ok)
          IN  /\ calls' = [calls EXCEPT !["draw"] = @ + 1, !["renderStringAt"] = @ + 1]
              /\ mv' = r.mv
              /\ pr' = r.pr
              /\ IF r.thrown
                   THEN /\ exc' = FAIL("renderString failed")
                        /\ pc' = "finally"
                   ELSE /\ exc' = exc
                        /\ pc' = "finish"
  /\ UNCHANGED <<window, shouldClose, callbacks, frame, framecount, start, fps,
                 clock, status, seen, lastCall, closedIn, finallyF>>
  /\ UNCHANGED <<lastEvent, life>>

\* events polled a second time, before the frame is presented
finishFramePollsAgain ==
  /\ pc = "finish"
  /\ \/ /\ calls' = Called("finishFrame")
        /\ pc' = "fps"
        /\ UNCHANGED lastCall
     \/ /\ calls' = Called("onMouseEnter")
        /\ lastCall' = [hook |-> "onMouseEnter", args |-> <<1>>]
        /\ calls["onMouseEnter"] < MaxEvents
        /\ pc' = pc
  /\ UNCHANGED <<window, shouldClose, callbacks, frame, framecount, start, fps,
                 clock, exc, status, seen, closedIn, mv, pr, finallyF>>
  /\ UNCHANGED <<lastEvent, life>>

\* line 97 and GlfwApp::finishFrame, lines 200-202
finishFrame ==
  /\ pc = "finish"
  /\ calls' = Called("finishFrame")
  /\ \/ /\ pc' = "fps"
        /\ exc' = exc
     \/ /\ exc' = FAIL("finishFrame failed")
        /\ pc' = "finally"
  /\ UNCHANGED <<window, shouldClose, callbacks, frame, framecount, start, fps,
                 clock, status, seen, lastCall, closedIn, mv, pr, finallyF>>
  /\ UNCHANGED <<lastEvent, life>>

\* a window of one second
WindowElapsedEarly(now, since) == (now - since) >= 1000

\* line 100
WindowElapsed(now, since) == (now - since) >= FpsWindowMillis

\* lines 98-106: the FPS bookkeeping at the end of an iteration
fpsCheck ==
  /\ pc = "fps"
  /\ \E d \in ClockSteps :
       LET now == clock + d
       IN  /\ clock' = now
           /\ IF WindowElapsed(now, start)
                THEN /\ fps' = <<framecount + 1, now - start>>
                     /\ start' = now
                     /\ framecount' = 0
                ELSE /\ framecount' = framecount + 1
                     /\ UNCHANGED <<fps, start>>
  /\ pc' = "loopTest"
  /\ UNCHANGED <<window, shouldClose, callbacks, frame, exc, status, calls, seen,
                 lastCall, closedIn, mv, pr, finallyF>>
  /\ UNCHANGED <<lastEvent, life>>

\* shutdownGl() called after the loop instead of by a scope guard
FinallyAfterLoopOnly ==
  /\ pc = "finally"
  /\ calls' = IF exc = NoExc THEN Called("shutdownGl") ELSE calls
  /\ pc' = IF exc = NoExc THEN "ret" ELSE "catch"
  /\ finallyF' = "run"
  /\ UNCHANGED <<window, shouldClose, callbacks, frame, framecount, start, fps,
                 clock, exc, status, seen, lastCall, closedIn, mv, pr>>
  /\ UNCHANGED <<lastEvent, life>>

\* lines 86-88 and GlfwApp::shutdownGl, lines 194-196: the destructor of f runs
\* when its scope is left, by the end of the loop or by an exception
Finally ==
  /\ pc = "finally"
  /\ calls' = Called("shutdownGl")
  /\ pc' = IF exc = NoExc THEN "ret" ELSE "catch"
  /\ UNCHANGED <<window, shouldClose, callbacks, frame, framecount, start, fps,
                 clock, exc, status, seen, lastCall, closedIn, mv, pr>>
  /\ finallyF' = "run"
  /\ UNCHANGED <<lastEvent, life>>

\* the handler placed inside the loop: the loop goes on after a failure
CatchAndContinue(e) ==
  IF e.type = "std::runtime_error" THEN "loopTest" ELSE "propagated"

\* line 109: where an exception that reaches the handler of run() goes
CatchClause(e) ==
  IF e.type = "std::runtime_error" THEN "ret" ELSE "propagated"

\* lines 109-111
catch ==
  /\ pc = "catch"
  /\ pc' = CatchClause(exc)
  /\ UNCHANGED <<window, shouldClose, callbacks, frame, framecount, start, fps,
                 clock, exc, status, calls, seen, lastCall, closedIn, mv, pr, finallyF>>
  /\ UNCHANGED <<lastEvent, life>>

\* a status that tells a caught failure from a clean exit
ReturnValueOnFailure(e) == IF e = NoExc THEN 0 ELSE 1

\* line 112, reached with e caught or with NoExc
ReturnValue(e) == 0

return ==
  /\ pc = "ret"
  /\ status' = <<ReturnValue(exc)>>
  /\ pc' = "done"
  /\ UNCHANGED <<window, shouldClose, callbacks, frame, framecount, start, fps,
                 clock, exc, calls, seen, lastCall, closedIn, mv, pr, finallyF>>
  /\ UNCHANGED <<lastEvent, life>>

\* GlfwApp::getFrame, lines 116-118: a const method, the value it returns
getFrame == frame

\* GlfwApp::destroyWindow, lines 204-207, called by the owner once run() has
\* returned.  glfwSetKeyCallback needs a window: with a null handle the process
\* dies there or goes on.  glfwDestroyWindow(NULL) does nothing; the member
\* window keeps its value.
destroyWindow ==
  /\ pc = "done"
  /\ life = "alive"
  /\ calls["destroyWindow"] = 0
  /\ IF window = "null"
       THEN /\ life' \in {"alive", "crashed"}
            /\ calls' = Called("destroyWindow")
            /\ UNCHANGED callbacks
       ELSE /\ callbacks' = [callbacks EXCEPT !["key"] = "none"]
            /\ calls' = [calls EXCEPT !["destroyWindow"] = @ + 1,
                                      !["glfwDestroyWindow"] = @ + 1]
            /\ UNCHANGED life
  /\ UNCHANGED <<pc, window, shouldClose, frame, framecount, start, fps, clock,
                 exc, status, seen, lastCall, closedIn, mv, pr, finallyF,
                 lastEvent>>

\* GlfwApp::~GlfwApp, lines 69-72, on an instance whose run() is not running.
\* glfwDestroyWindow(NULL) does nothing; a handle that was destroyed before is
\* freed memory: the process dies there or goes on.
destructor ==
  /\ pc \in {"start", "done"}
  /\ life = "alive"
  /\ IF window = "null"
       THEN /\ life' = "destructed"
            /\ UNCHANGED calls
       ELSE /\ calls' = Called("glfwDestroyWindow")
            /\ IF calls["glfwDestroyWindow"] = 0
                 THEN life' = "destructed"
                 ELSE life' \in {"destructed", "crashed"}
  /\ UNCHANGED <<pc, window, shouldClose, callbacks, frame, framecount, start,
                 fps, clock, exc, status, seen, lastCall, closedIn, mv, pr,
                 finallyF, lastEvent>>

Next ==
  \/ preCreate
  \/ createRenderingTarget
  \/ postCreate
  \/ checkWindow
  \/ initGl
  \/ enterLoop
  \/ loopTest
  \/ glfwPollEvents
  \/ \E e \in KeyEvents \cup OtherEvents \cup {CloseEvent} : Dispatch(e)
  \/ PollReturn
  \/ update
  \/ draw
  \/ finishFrame
  \/ fpsCheck
  \/ Finally
  \/ catch
  \/ return
  \/ destroyWindow
  \/ destructor

Spec == Init /\ [][Next]_vars

----------------------------------------------------------------------------
(* Properties *)

LoopPositions == {"loopTest", "poll", "polling", "update", "draw", "finish", "fps"}

LoopEntered ==
  \/ calls["glfwPollEvents"] > 0
  \/ calls["update"] > 0
  \/ calls["draw"] > 0
  \/ calls["finishFrame"] > 0
  \/ frame # InitFrame

\* C1: when createRenderingTarget has returned a null handle and run() has
\* returned, shutdownGl has been called exactly once and the loop was never
\* entered (no poll, update, draw, finishFrame; frame not incremented).
C1_NullWindowShutsDownOnce ==
  (pc = "done" /\ window = "null" /\ calls["postCreate"] = 1)
    => (calls["shutdownGl"] = 1 /\ ~LoopEntered)

\* C2: once the frame loop is reached (the scope guard exists), shutdownGl is
\* called exactly once before run() returns, after a close as well as after a
\* failure of a hook, and never while an iteration is in progress.
C2_ShutdownOnceAfterLoop ==
  /\ (pc \in LoopPositions \cup {"finally"}) => calls["shutdownGl"] = 0
  /\ (finallyF # "none" /\ pc \in {"catch", "ret", "done"})
       => (calls["shutdownGl"] = 1 /\ finallyF = "run")
  /\ calls["shutdownGl"] <= 1

\* a run that failed in a hook after one full iteration, and has returned
C2_Witness ==
  /\ pc = "done"
  /\ exc.what \in {"update failed", "draw failed", "finishFrame failed", "hook failed"}
  /\ calls["finishFrame"] >= 1
  /\ calls["shutdownGl"] = 1

\* C3: when glewInit fails in postCreate (here with a window that was created)
\* and run() has returned, shutdownGl has been called and the loop was never
\* entered.
C3_GlewFailureShutsDown ==
  (pc = "done" /\ window = "valid" /\ exc.what = "Failed to initialize GLEW")
    => (calls["shutdownGl"] >= 1 /\ ~LoopEntered)

\* the step is the dispatch of a key event to onKey
OnKeyStep == calls'["onKey"] = calls["onKey"] + 1

\* C4: a press of escape given to onKey, whatever the modifiers, sets the close
\* flag; after the iteration in which the flag was set no iteration runs
\* update or draw (or polls) again.
C4_EscapeCloses ==
  /\ [][(OnKeyStep /\ lastCall'.args[1] = GLFW_KEY_ESCAPE
                   /\ lastCall'.args[3] = GLFW_PRESS) => shouldClose']_vars
  /\ [](shouldClose => /\ closedIn > 0
                       /\ calls["glfwPollEvents"] <= closedIn
                       /\ calls["update"] <= closedIn
                       /\ calls["draw"] <= closedIn)

\* escape pressed in the first iteration, the run has ended after that one
\* iteration although a second one was allowed
C4_Witness ==
  /\ pc = "done"
  /\ seen["escPress"] = 1
  /\ seen["close"] = 0
  /\ shouldClose
  /\ closedIn = 1
  /\ calls["update"] = 1
  /\ calls["draw"] = 1
  /\ frame < MaxFrames

\* C5: as long as GLFW has reported neither a press of escape nor a press of S
\* with shift held (and no close request), the close flag is unset and
\* screenshot has not been called.
C5_OtherKeysDoNothing ==
  (seen["escPress"] = 0 /\ seen["shiftSPress"] = 0 /\ seen["close"] = 0)
    => (~shouldClose /\ calls["screenshot"] = 0)

\* two key events went to onKey, the last one S pressed with control only
C5_Witness ==
  /\ pc = "polling"
  /\ calls["onKey"] = 2
  /\ lastCall = [hook |-> "onKey", args |-> <<GLFW_KEY_S, 39, GLFW_PRESS, 2>>]
  /\ seen["escPress"] = 0
  /\ seen["shiftSPress"] = 0
  /\ ~shouldClose
  /\ calls["screenshot"] = 0

\* C6: screenshot has been called once for every press of S with shift held
\* that GLFW has reported, however many polls and frames there were; releases
\* and repeats add nothing.
C6_OneScreenshotPerPress ==
  calls["screenshot"] = seen["shiftSPress"]

\* a press of shift-S followed by the repeat of the same key, one screenshot
C6_Witness ==
  /\ pc = "polling"
  /\ calls["onKey"] = 2
  /\ lastCall = [hook |-> "onKey", args |-> <<GLFW_KEY_S, 39, 2, GLFW_MOD_SHIFT>>]
  /\ seen["shiftSPress"] = 1
  /\ calls["screenshot"] = 1

\* C7: getFrame() is InitFrame = 0 before the loop, equals the number of
\* completed iterations at every iteration boundary and after a normal exit,
\* grows by one in each started iteration, and never decreases.
C7_FrameCountsIterations ==
  /\ [][frame' >= frame]_vars
  /\ [] /\ InitFrame = 0
        /\ (pc = "loopTest" \/ (pc \in {"finally", "ret", "done"} /\ exc = NoExc))
             => getFrame = calls["finishFrame"]
        /\ getFrame = calls["update"]
        /\ (calls["glfwPollEvents"] - getFrame) \in {0, 1}

\* two iterations completed and the loop left normally
C7_Witness ==
  /\ pc = "done"
  /\ exc = NoExc
  /\ getFrame = 2
  /\ calls["finishFrame"] = 2

\* C8: fps changes only in the FPS step of an iteration whose elapsed time is
\* at least 2000 ms; in an FPS step with less than 2000 ms elapsed, fps and
\* start stay as they are and framecount grows by one.
C8_FpsOnlyAfterWindow ==
  [][/\ (fps' # fps) => (pc = "fps" /\ clock' - start >= 2000)
     /\ (pc = "fps" /\ clock' - start < 2000)
          => (fps' = fps /\ start' = start /\ framecount' = framecount + 1)]_vars

\* fps was computed in the first iteration; the second one came 1000 ms later
\* and left it alone
C8_Witness ==
  /\ pc = "loopTest"
  /\ frame = 2
  /\ fps = <<1, 2000>>
  /\ framecount = 1
  /\ clock - start = 1000

\* C9: run() returns 0 on every path, and no failure leaves run().
C9_ReturnsZero ==
  /\ pc # "propagated"
  /\ status \in {NoStatus, <<0>>}
  /\ (pc = "done") <=> (status = <<0>>)

\* a run that returned after a failure in the loop
C9_Witness ==
  /\ pc = "done"
  /\ status = <<0>>
  /\ exc # NoExc
  /\ calls["update"] >= 1

\* C10: a call of renderStringAt leaves the modelview and the projection stack
\* as they were, whether oria::renderString returns or throws.
C10_StacksRestored ==
  [][(calls'["renderStringAt"] # calls["renderStringAt"])
       => (mv' = mv /\ pr' = pr)]_vars

\* the hook the GlfwApp interface names for each kind of native event
HookOf(kind) ==
  CASE kind = "key" -> "onKey"
    [] kind = "mouseButton" -> "onMouseButton"
    [] kind = "cursorPos" -> "onMouseMove"
    [] kind = "cursorEnter" -> "onMouseEnter"
    [] kind = "char" -> "onCharacter"
    [] kind = "scroll" -> "onScroll"

InputHooks ==
  {"onKey", "onMouseButton", "onMouseMove", "onMouseEnter", "onCharacter", "onScroll"}

RECURSIVE SumCalls(_)
SumCalls(hs) ==
  IF hs = {} THEN 0
  ELSE LET h == CHOOSE x \in hs : TRUE
       IN  calls[h] + SumCalls(hs \ {h})

\* C11: the event GLFW is reporting has produced the call of its hook with the
\* event's own arguments, and the hooks have been called as many times as
\* input events were reported: each event makes its one call before the next
\* event is reported, so the calls are the events, in their order.
C11_OneHookCallPerEvent ==
  /\ (lastEvent # NoEvent /\ lastEvent # CloseEvent)
       => lastCall = [hook |-> HookOf(lastEvent.kind), args |-> lastEvent.args]
  /\ SumCalls(InputHooks) = seen["any"] - seen["close"]

\* a key event and then a cursor move reported in the same poll
C11_Witness ==
  /\ pc = "polling"
  /\ calls["glfwPollEvents"] = 1
  /\ seen["any"] = 2
  /\ calls["onKey"] = 1
  /\ calls["onMouseMove"] = 1
  /\ lastEvent = [kind |-> "cursorPos", args |-> <<3, 4>>]
  /\ lastCall = [hook |-> "onMouseMove", args |-> <<3, 4>>]

\* C12: postCreate and initGl have run only with a window handle that is not
\* null.
C12_SetupOnlyOnValidWindow ==
  (calls["postCreate"] > 0 \/ calls["initGl"] > 0) => window = "valid"

SetupPhases == <<"preCreate", "createRenderingTarget", "postCreate", "initGl">>

\* C13: each setup phase runs at most once and only after the phase before it;
\* all four have run exactly once whenever the loop is, or has been, running;
\* shutdownGl runs only after them and outside the loop.
C13_PhasesInOrder ==
  /\ \A i \in 1 .. 4 : calls[SetupPhases[i]] <= 1
  /\ \A i \in 1 .. 3 : calls[SetupPhases[i + 1]] <= calls[SetupPhases[i]]
  /\ (pc \in LoopPositions \/ LoopEntered)
       => \A i \in 1 .. 4 : calls[SetupPhases[i]] = 1
  /\ (calls["shutdownGl"] > 0)
       => (calls["initGl"] = 1 /\ pc \notin LoopPositions)

\* a run whose setup succeeded, that made one iteration and left by the flag
C13_Witness ==
  /\ pc = "done"
  /\ exc = NoExc
  /\ \A i \in 1 .. 4 : calls[SetupPhases[i]] = 1
  /\ calls["glfwPollEvents"] = 1
  /\ calls["draw"] = 1
  /\ calls["shutdownGl"] = 1

\* C14: in every iteration the order is poll, update, draw, finishFrame, FPS
\* step, each of update, draw and finishFrame once; the input hooks are called
\* only while glfwPollEvents is running, never from update to finishFrame.
C14_IterationOrder ==
  /\ [] LET n == calls["glfwPollEvents"]
            u == calls["update"]
            d == calls["draw"]
            f == calls["finishFrame"]
        IN  /\ (pc \in {"poll", "loopTest"}) => (u = n /\ d = n /\ f = n)
            /\ (pc \in {"polling", "update"}) => (u = n - 1 /\ d = n - 1 /\ f = n - 1)
            /\ (pc = "draw") => (u = n /\ d = n - 1 /\ f = n - 1)
            /\ (pc = "finish") => (u = n /\ d = n /\ f = n - 1)
            /\ (pc = "fps") => (u = n /\ d = n /\ f = n)
            /\ f <= d /\ d <= u /\ u <= n /\ n <= f + 1
  /\ [][(\E h \in InputHooks : calls'[h] # calls[h]) => pc = "polling"]_vars
  /\ [][(framecount' # framecount \/ fps' # fps)
          => (pc \in {"enterLoop", "fps"})]_vars

\* the second iteration, with a hook called in each poll, about to present
C14_Witness ==
  /\ pc = "finish"
  /\ calls["glfwPollEvents"] = 2
  /\ SumCalls(InputHooks) = 2
  /\ closedIn = 0
  /\ calls["update"] = 2
  /\ calls["draw"] = 2
  /\ calls["finishFrame"] = 1

\* how far a position of run() is from its return
PcRank(p) ==
  CASE p = "poll" -> 10
    [] p = "polling" -> 9
    [] p = "update" -> 8
    [] p = "draw" -> 7
    [] p = "finish" -> 6
    [] p = "fps" -> 5
    [] p = "loopTest" -> 4
    [] p = "finally" -> 3
    [] p = "catch" -> 2
    [] p = "ret" -> 1
    [] OTHER -> 0

\* steps run() can still take: positions left, and events GLFW can still report
\* in the running poll
StepsLeft == PcRank(pc) * (MaxEvents + 1) + (MaxEvents - seen["any"])

\* C15: the close flag is never cleared; the iteration in which it is set
\* still runs its update, draw and finishFrame when the hooks return, and no
\* further iteration starts; from then on run() always has a next step until
\* it has ended, and each step brings it nearer to its end.
C15_CooperativeClose ==
  /\ [][shouldClose => shouldClose']_vars
  /\ []((closedIn > 0 /\ exc = NoExc /\ pc \in {"loopTest", "finally", "ret", "done"})
          => /\ calls["glfwPollEvents"] = closedIn
             /\ calls["update"] = closedIn
             /\ calls["draw"] = closedIn
             /\ calls["finishFrame"] = closedIn)
  /\ [](shouldClose => calls["glfwPollEvents"] <= closedIn)
  /\ []((shouldClose /\ pc \notin {"done", "aborted"}) => ENABLED Next)
  /\ [][(shouldClose /\ pc \notin {"done", "aborted"})
          => (StepsLeft' < StepsLeft /\ StepsLeft' >= 0)]_vars

\* the flag was set by escape during the poll of the second iteration, which
\* was completed before run() returned
C15_Witness ==
  /\ pc = "done"
  /\ exc = NoExc
  /\ seen["escPress"] = 1
  /\ seen["close"] = 0
  /\ closedIn = 2
  /\ calls["finishFrame"] = 2

LoopCalls == {"glfwPollEvents", "update", "draw", "finishFrame"} \cup InputHooks

\* C16: once a failure has been raised, run() is outside the loop for good: no
\* poll, update, draw, finishFrame or input hook is called any more and frame
\* stays; the steps that follow the failing one in its iteration were skipped.
C16_FailureEndsLoop ==
  /\ [](exc # NoExc => pc \notin LoopPositions)
  /\ [][exc # NoExc => (frame' = frame /\ \A f \in LoopCalls : calls'[f] = calls[f])]_vars
  /\ [][exc # NoExc => exc' = exc]_vars
  /\ [] /\ (exc.what = "hook failed")
             => calls["update"] = calls["glfwPollEvents"] - 1
        /\ (exc.what = "update failed")
             => calls["draw"] = calls["update"] - 1
        /\ (exc.what \in {"draw failed", "renderString failed"})
             => calls["finishFrame"] = calls["draw"] - 1

\* draw failed in the first iteration: no finishFrame, no second iteration
C16_Witness ==
  /\ pc = "done"
  /\ exc.what = "draw failed"
  /\ ~shouldClose
  /\ frame = 1
  /\ calls["glfwPollEvents"] = 1
  /\ calls["finishFrame"] = 0

\* C17: the window is created at most once and its handle is given to
\* glfwDestroyWindow at most once, so no native call gets a destroyed handle.
C17_WindowDestroyedOnce ==
  /\ calls["createRenderingTarget"] <= 1
  /\ calls["glfwDestroyWindow"] <= 1

====
